---- MODULE Spec2Model ----
(***************************************************************************)
(* A model of nakake/rust_wgpu_engine: the entity store with its movement  *)
(* system, the three frame coordinators found in the source                *)
(*   game_app      src/game_app/src/main.rs driving                        *)
(*                 src/crates/engine_internals/engine_renderer             *)
(*   renderer_rs   src/crates/engine_renderer/src/renderer.rs              *)
(*   lib_rs        src/crates/engine_renderer/src/lib.rs                   *)
(* and the headless host loop src/crates/engine_api/src/lib.rs.            *)
(*                                                                         *)
(* f32 values are modelled in fixed point: the integer v stands for        *)
(* v / Den, and a product is rounded toward zero.  A Duration is a number  *)
(* of milliseconds.  A rotation is a number of quarter turns, so that its  *)
(* sine and cosine are exact.                                              *)
(***************************************************************************)
EXTENDS Integers, Sequences, FiniteSets, TLC

VARIABLES
    variant,        \* which frame coordinator / host this run is of
    entities,       \* World: the sequence of entities, in query order
    spawned,        \* the entities as they were at creation (history)
    time,           \* World resource Time: [present, delta, delta_seconds]
    worldInput,     \* World resource InputManager: [present, pressed]
    input_manager,  \* the host's own InputManager (App.input_manager)
    held,           \* the physical keys currently held (environment)
    size,           \* AppState.size / Renderer.size: <<width, height>>
    config,         \* SurfaceConfiguration's <<width, height>>
    ops,            \* the handler that ran last, then the calls it made, in order
    exiting,        \* event_loop.exit() was called
    panicked,       \* the process panicked
    last_update,    \* Engine.last_update, in milliseconds
    ticks           \* number of ticks run so far (bounded by MaxTicks)

vars == <<variant, entities, spawned, time, worldInput, input_manager, held,
          size, config, ops, exiting, panicked, last_update, ticks>>

----------------------------------------------------------------------------
(* Bounds of the model *)

\* fixed-point denominator: the integer v stands for the f32 v / Den
Den == 10
\* largest window dimension the platform reports
MaxDim == 2
\* largest number of entities in a World
MaxEntities == 2
\* largest number of ticks of a run
MaxTicks == 2

\* the durations, in milliseconds, that may elapse between two ticks
Deltas == {0, 500}

----------------------------------------------------------------------------
(* engine_core::math on fixed-point numbers *)

MillisPerSec == 1000

Abs(x) == IF x < 0 THEN -x ELSE x

Sgn(x) == IF x < 0 THEN -1 ELSE IF x > 0 THEN 1 ELSE 0

\* an f32 literal given in tenths
Lit(tenths) == (tenths * Den) \div 10

\* f32 multiplication, rounded toward zero
FMul(a, b) ==
    IF a = 0 \/ b = 0 THEN 0 ELSE Sgn(a) * Sgn(b) * ((Abs(a) * Abs(b)) \div Den)

\* largest k with k * k <= n
ISqrt(n) == CHOOSE k \in 0..n : k * k <= n /\ (k + 1) * (k + 1) > n

\* f32::sqrt
FSqrt(a) == ISqrt(a * Den)

\* f32::recip
FRecip(a) == (Den * Den) \div a

\* Vec2 operations of glam
Vec2Add(a, b) == <<a[1] + b[1], a[2] + b[2]>>

Vec2Scale(a, k) == <<FMul(a[1], k), FMul(a[2], k)>>

LengthSquared(a) == FMul(a[1], a[1]) + FMul(a[2], a[2])

Length(a) == FSqrt(LengthSquared(a))

\* glam's Vec2::normalize: self * self.length().recip()
Normalize(a) == Vec2Scale(a, FRecip(Length(a)))

\* Duration::as_secs_f32
AsSecsF32(ms) == (ms * Den) \div MillisPerSec

----------------------------------------------------------------------------
(* engine_input *)

InputAction == {"MoveForward", "MoveBack", "MoveLeft", "MoveRight"}

\* a press that toggles: inserting an action already in the set removes it
action_pressed_Toggle(pressed, key) ==
    IF key \in pressed THEN pressed \ {key} ELSE pressed \cup {key}

\* InputManager::action_pressed
action_pressed(pressed, key) == pressed \cup {key}

\* InputManager::action_released
action_released(pressed, key) == pressed \ {key}

\* InputManager::is_action_pressed
is_action_pressed(pressed, key) == key \in pressed

----------------------------------------------------------------------------
(* engine_core::Color and the components of engine_ecs *)

GREEN == <<0, Den, 0, Den>>

BLUE == <<0, 0, Den, Den>>

RED == <<Den, 0, 0, Den>>

\* an entity: which components it holds, and their values
Entity(isPlayer, hasSp, sp, hasTr, pos, sc, rot, hasRe, col) ==
    [player |-> isPlayer, hasSpeed |-> hasSp, speed |-> sp,
     hasTransform |-> hasTr, position |-> pos, scale |-> sc,
     rotation |-> rot, hasRenderable |-> hasRe, color |-> col]

\* the Transform component of an entity
Transform(e) == [position |-> e.position, scale |-> e.scale, rotation |-> e.rotation]

\* main(): the Player quad
PlayerQuad ==
    Entity(TRUE, TRUE, Lit(10), TRUE, <<Lit(0), Lit(0)>>, <<Lit(2), Lit(2)>>, 0,
           TRUE, GREEN)

\* main(): the static quad
StaticQuad ==
    Entity(FALSE, FALSE, 0, TRUE, <<Lit(7), Lit(7)>>, <<Lit(2), Lit(2)>>, 0,
           TRUE, BLUE)

\* the World main() builds
SeedScene == <<PlayerQuad, StaticQuad>>

\* bundles a caller of the engine crates may spawn besides the two of main():
\* a quad with MoveSpeed but no Player marker, turned by a quarter turn
DriftQuad ==
    Entity(FALSE, TRUE, Lit(20), TRUE, <<Lit(-3), Lit(4)>>, <<Lit(10), Lit(5)>>, 1,
           TRUE, RED)

\* a Player with MoveSpeed and Transform but no Renderable
GhostPlayer ==
    Entity(TRUE, TRUE, Lit(20), TRUE, <<Lit(1), Lit(-2)>>, <<Lit(10), Lit(10)>>, 0,
           FALSE, <<0, 0, 0, 0>>)

\* a Renderable with no Transform
Swatch ==
    Entity(FALSE, FALSE, 0, FALSE, <<0, 0>>, <<0, 0>>, 0, TRUE, RED)

Bundles == <<PlayerQuad, StaticQuad, DriftQuad, GhostPlayer, Swatch>>

\* the sequence of the bundles whose index is in S, in index order
RECURSIVE Pick(_, _)
Pick(S, i) ==
    IF i > Len(Bundles) THEN <<>>
    ELSE IF i \in S THEN <<Bundles[i]>> \o Pick(S, i + 1)
    ELSE Pick(S, i + 1)

\* the Worlds of the model: up to MaxEntities distinct bundles
Scenes ==
    {Pick(S, 1) : S \in {T \in SUBSET (1..Len(Bundles)) : Cardinality(T) <= MaxEntities}}

\* the number of InstanceRaw records the instance buffer is created for
InstanceCapacity == 1024

\* a World of n static quads
Crowd(n) == [i \in 1..n |-> StaticQuad]

\* Worlds around the capacity of the instance buffer: the World of main(),
\* one that fills the buffer and one that exceeds it by one entity
CapacityWorlds == {SeedScene, Crowd(InstanceCapacity), Crowd(InstanceCapacity + 1)}

----------------------------------------------------------------------------
(* engine_time::Time *)

\* Time::default
TimeDefault == [present |-> TRUE, delta |-> 0, delta_seconds |-> AsSecsF32(0)]

\* no Time resource in the World
TimeAbsent == [present |-> FALSE, delta |-> 0, delta_seconds |-> 0]

\* Time::advance_by
advance_by(t, delta) ==
    [present |-> t.present, delta |-> delta, delta_seconds |-> AsSecsF32(delta)]

\* Time::delta_seconds
delta_seconds(t) == t.delta_seconds

----------------------------------------------------------------------------
(* engine_ecs::systems::player_movement_system *)

\* the direction picked by priority: forward over back, left over right
Direction_PriorityPick(pressed) ==
    <<IF is_action_pressed(pressed, "MoveLeft") THEN -Den
      ELSE IF is_action_pressed(pressed, "MoveRight") THEN Den ELSE 0,
      IF is_action_pressed(pressed, "MoveForward") THEN Den
      ELSE IF is_action_pressed(pressed, "MoveBack") THEN -Den ELSE 0>>

\* the direction summed from the four predicates, in the order of the code
Direction(pressed) ==
    LET d0 == <<0, 0>>
        d1 == IF is_action_pressed(pressed, "MoveForward") THEN <<d0[1], d0[2] + Den>> ELSE d0
        d2 == IF is_action_pressed(pressed, "MoveBack") THEN <<d1[1], d1[2] - Den>> ELSE d1
        d3 == IF is_action_pressed(pressed, "MoveLeft") THEN <<d2[1] - Den, d2[2]>> ELSE d2
        d4 == IF is_action_pressed(pressed, "MoveRight") THEN <<d3[1] + Den, d3[2]>> ELSE d3
    IN d4

\* the body of the loop without the factor time.delta_seconds()
MoveOne_NoDelta(e, pressed, dt) ==
    IF LengthSquared(Direction(pressed)) > 0
    THEN [e EXCEPT !.position =
            Vec2Add(e.position, Vec2Scale(Normalize(Direction(pressed)), e.speed))]
    ELSE e

\* the body of the loop, for one entity the query matched
MoveOne(e, pressed, dt) ==
    LET direction == Direction(pressed)
    IN IF LengthSquared(direction) > 0
       THEN [e EXCEPT !.position =
                Vec2Add(e.position,
                        Vec2Scale(Vec2Scale(Normalize(direction), e.speed), dt))]
       ELSE e

\* the query without its With<Player> filter
MovementQuery_NoPlayerFilter(e) == e.hasTransform /\ e.hasSpeed

\* Query<(&mut Transform, &MoveSpeed), With<Player>>
MovementQuery(e) == e.hasTransform /\ e.hasSpeed /\ e.player

\* one run of the system over the World
player_movement_system(es, t, pressed) ==
    [i \in 1..Len(es) |->
        IF MovementQuery(es[i]) THEN MoveOne(es[i], pressed, delta_seconds(t)) ELSE es[i]]

----------------------------------------------------------------------------
(* glam::Mat4, column major: m[c][r] is the entry of column c, row r *)

Cos(q) == CASE q % 4 = 0 -> Den [] q % 4 = 2 -> -Den [] OTHER -> 0

Sin(q) == CASE q % 4 = 1 -> Den [] q % 4 = 3 -> -Den [] OTHER -> 0

\* Mat4::from_translation
from_translation(v) ==
    <<<<Den, 0, 0, 0>>, <<0, Den, 0, 0>>, <<0, 0, Den, 0>>, <<v[1], v[2], v[3], Den>>>>

\* Mat4::from_rotation_z
from_rotation_z(q) ==
    <<<<Cos(q), Sin(q), 0, 0>>, <<-Sin(q), Cos(q), 0, 0>>, <<0, 0, Den, 0>>, <<0, 0, 0, Den>>>>

\* Mat4::from_scale
from_scale(v) ==
    <<<<v[1], 0, 0, 0>>, <<0, v[2], 0, 0>>, <<0, 0, v[3], 0>>, <<0, 0, 0, Den>>>>

\* the entry of column c, row r of a * b
MatEntry(a, b, c, r) ==
    FMul(a[1][r], b[c][1]) + FMul(a[2][r], b[c][2])
    + FMul(a[3][r], b[c][3]) + FMul(a[4][r], b[c][4])

\* column c of a * b
MatCol(a, b, c) ==
    <<MatEntry(a, b, c, 1), MatEntry(a, b, c, 2), MatEntry(a, b, c, 3), MatEntry(a, b, c, 4)>>

\* Mat4 * Mat4
MatMul(a, b) == <<MatCol(a, b, 1), MatCol(a, b, 2), MatCol(a, b, 3), MatCol(a, b, 4)>>

----------------------------------------------------------------------------
(* Instance extraction: the three Renderer::render *)

\* the model matrix of renderer.rs (both crates): translation * rotation * scale
ModelMatrixTRS(e) ==
    LET tr == MatMul(from_translation(<<e.position[1], e.position[2], 0>>),
                     from_rotation_z(e.rotation))
    IN MatMul(tr, from_scale(<<e.scale[1], e.scale[2], Den>>))

\* the model matrix of engine_renderer/src/lib.rs: scale * rotation * translation
ModelMatrixSRT(e) ==
    LET sr == MatMul(from_scale(<<e.scale[1], e.scale[2], Den>>),
                     from_rotation_z(e.rotation))
    IN MatMul(sr, from_translation(<<e.position[1], e.position[2], 0>>))

\* the model matrix the variant v composes
ModelMatrix(v, e) == IF v = "lib_rs" THEN ModelMatrixSRT(e) ELSE ModelMatrixTRS(e)

\* a query for the Transform alone
RenderQuery_TransformOnly(e) == e.hasTransform

\* world.query::<(&Transform, &Renderable)>()
RenderQuery(e) == e.hasTransform /\ e.hasRenderable

\* the InstanceRaw of one entity
InstanceRaw(v, e) == [model |-> ModelMatrix(v, e), color |-> e.color]

\* query.iter(world).map(..).collect::<Vec<_>>()
InstanceData(v, es) ==
    LET matched == SelectSeq(es, RenderQuery)
    IN [i \in 1..Len(matched) |-> InstanceRaw(v, matched[i])]

----------------------------------------------------------------------------
(* The calls a handler makes, as records of one shape *)

NumIndices == 6

Call(name) ==
    [op |-> name, res |-> "", w |-> 0, h |-> 0, n |-> 0, ms |-> 0, data |-> <<>>]

\* the entry of a handler: a resize with the size it is given
ResizeEvent(name, new_size) == [Call(name) EXCEPT !.w = new_size[1], !.h = new_size[2]]

\* the entry of a tick, elapsed milliseconds after the previous one
TickEvent(name, elapsed) == [Call(name) EXCEPT !.ms = elapsed]

\* surface.get_current_texture() returning res
Acquire(res) == [Call("get_current_texture") EXCEPT !.res = res]

\* surface.configure(device, config) with config.width = w, config.height = h
Configure(w, h) == [Call("configure") EXCEPT !.w = w, !.h = h]

\* queue.write_buffer(instance_buffer, 0, data)
WriteBuffer(data) == [Call("write_buffer") EXCEPT !.n = Len(data), !.data = data]

\* render_pass.draw_indexed(0..num_indices, 0, 0..n)
DrawIndexed(n) == [Call("draw_indexed") EXCEPT !.w = NumIndices, !.n = n]

\* the results of Surface::get_current_texture
SurfaceResults == {"Ok", "Lost", "OutOfMemory", "Timeout", "Outdated"}

\* a render that submits the encoder before it records the upload and the draw
InternalsRender_SubmitFirst(es) ==
    LET instance_data == InstanceData("game_app", es)
    IN <<Call("submit"), WriteBuffer(instance_data)>>
       \o (IF instance_data # <<>> THEN <<DrawIndexed(Len(instance_data))>> ELSE <<>>)

\* engine_internals Renderer::render(world, view, device, queue)
InternalsRender(es) ==
    LET instance_data == InstanceData("game_app", es)
    IN <<WriteBuffer(instance_data)>>
       \o (IF instance_data # <<>> THEN <<DrawIndexed(Len(instance_data))>> ELSE <<>>)
       \o <<Call("submit")>>

\* engine_renderer Renderer::render(world) of renderer.rs and of lib.rs
\* (they differ in the model matrix), from the texture acquired on
RendererDraw(v, es) ==
    LET instance_data == InstanceData(v, es)
    IN <<WriteBuffer(instance_data), DrawIndexed(Len(instance_data)),
         Call("submit"), Call("present")>>

\* the acquisition of engine_renderer Renderer::render: what it does on res
RendererRenderOps(v, es, res) ==
    <<Acquire(res)>>
    \o CASE res = "Ok" -> RendererDraw(v, es)
         [] res = "Lost" -> <<Call("return SurfaceLost")>>
         [] res = "OutOfMemory" -> <<Call("return OutOfMemory")>>
         [] OTHER -> <<Call("panic")>>

\* resize recording the new size and reconfiguring with the old configuration
resize_StaleConfig(sz, cfg, new_size) ==
    IF new_size[1] > 0 /\ new_size[2] > 0
    THEN [size |-> new_size, config |-> cfg,
          ops |-> <<Configure(cfg[1], cfg[2])>>]
    ELSE [size |-> sz, config |-> cfg, ops |-> <<>>]

\* resize reconfiguring whenever either dimension is positive
resize_EitherPositive(sz, cfg, new_size) ==
    IF new_size[1] > 0 \/ new_size[2] > 0
    THEN [size |-> new_size, config |-> new_size,
          ops |-> <<Configure(new_size[1], new_size[2])>>]
    ELSE [size |-> sz, config |-> cfg, ops |-> <<>>]

\* AppState::resize and Renderer::resize (the three are the same code):
\* the size and configuration after, and the calls made
resize(sz, cfg, new_size) ==
    IF new_size[1] > 0 /\ new_size[2] > 0
    THEN [size |-> new_size, config |-> new_size,
          ops |-> <<Configure(new_size[1], new_size[2])>>]
    ELSE [size |-> sz, config |-> cfg, ops |-> <<>>]

----------------------------------------------------------------------------
(* game_app: the window host loop of main.rs *)

\* the physical keys of the modelled keyboard
Keyboard == {"KeyW", "ArrowUp", "KeyS", "KeyD", "Escape"}

ElementState == {"Pressed", "Released"}

\* the match on keycode of the KeyboardInput arm
KeyAction(keycode) ==
    CASE keycode \in {"KeyW", "ArrowUp"} -> "MoveForward"
      [] keycode \in {"KeyS", "ArrowDown"} -> "MoveBack"
      [] keycode \in {"KeyA", "ArrowLeft"} -> "MoveLeft"
      [] keycode \in {"KeyD", "ArrowRight"} -> "MoveRight"
      [] OTHER -> "None"

\* the window sizes the platform reports to Resized
Dims == 0..MaxDim

\* the sizes a surface can be configured with (Surface::configure panics on
\* a zero dimension, so AppState::new and Renderer::new return with these)
ValidSizes == (1..MaxDim) \X (1..MaxDim)

\* the match with the Lost arm missing: Lost falls to the catch-all arm
RedrawAcquire_NoLostArm(res, es, sz, cfg) ==
    CASE res = "Ok" ->
           [size |-> sz, config |-> cfg, exit |-> FALSE,
            ops |-> <<Acquire(res)>> \o InternalsRender(es) \o <<Call("present")>>]
      [] res = "OutOfMemory" ->
           [size |-> sz, config |-> cfg, exit |-> TRUE,
            ops |-> <<Acquire(res), Call("exit")>>]
      [] OTHER ->
           [size |-> sz, config |-> cfg, exit |-> FALSE,
            ops |-> <<Acquire(res), Call("eprintln")>>]

\* the match with the OutOfMemory arm recovering as the Lost arm does
RedrawAcquire_OomRecovers(res, es, sz, cfg) ==
    CASE res = "Ok" ->
           [size |-> sz, config |-> cfg, exit |-> FALSE,
            ops |-> <<Acquire(res)>> \o InternalsRender(es) \o <<Call("present")>>]
      [] res \in {"Lost", "OutOfMemory"} ->
           [size |-> sz, config |-> cfg, exit |-> FALSE,
            ops |-> <<Acquire(res), Configure(sz[1], sz[2])>>]
      [] OTHER ->
           [size |-> sz, config |-> cfg, exit |-> FALSE,
            ops |-> <<Acquire(res), Call("eprintln")>>]

\* the match on surface.get_current_texture() of the RedrawRequested arm:
\* the size and configuration after, the calls made, and whether exit is called
RedrawAcquire(res, es, sz, cfg) ==
    CASE res = "Ok" ->
           [size |-> sz, config |-> cfg, exit |-> FALSE,
            ops |-> <<Acquire(res)>> \o InternalsRender(es) \o <<Call("present")>>]
      [] res = "Lost" ->
           LET r == resize(sz, cfg, sz)
           IN [size |-> r.size, config |-> r.config, exit |-> FALSE,
               ops |-> <<Acquire(res)>> \o r.ops]
      [] res = "OutOfMemory" ->
           [size |-> sz, config |-> cfg, exit |-> TRUE,
            ops |-> <<Acquire(res), Call("exit")>>]
      [] OTHER ->
           [size |-> sz, config |-> cfg, exit |-> FALSE,
            ops |-> <<Acquire(res), Call("eprintln")>>]

\* WindowEvent::KeyboardInput
KeyboardInput(keycode, state) ==
    /\ variant = "game_app"
    /\ ~exiting
    /\ state = "Released" => keycode \in held
    /\ held' = IF state = "Pressed" THEN held \cup {keycode} ELSE held \ {keycode}
    /\ input_manager' =
         IF KeyAction(keycode) = "None" THEN input_manager
         ELSE IF state = "Pressed" THEN action_pressed(input_manager, KeyAction(keycode))
         ELSE action_released(input_manager, KeyAction(keycode))
    /\ ops' = <<Call("KeyboardInput")>>
    /\ UNCHANGED <<variant, entities, spawned, time, worldInput, size, config,
                   exiting, panicked, last_update, ticks>>

\* WindowEvent::CloseRequested
CloseRequested ==
    /\ variant = "game_app"
    /\ ~exiting
    /\ exiting' = TRUE
    /\ ops' = <<Call("CloseRequested"), Call("exit")>>
    /\ UNCHANGED <<variant, entities, spawned, time, worldInput, input_manager, held,
                   size, config, panicked, last_update, ticks>>

\* WindowEvent::Resized
Resized(physical_size) ==
    /\ variant = "game_app"
    /\ ~exiting
    /\ \E r \in {resize(size, config, physical_size)} :
          /\ size' = r.size
          /\ config' = r.config
          /\ ops' = <<ResizeEvent("Resized", physical_size)>> \o r.ops
    /\ UNCHANGED <<variant, entities, spawned, time, worldInput, input_manager, held,
                   exiting, panicked, last_update, ticks>>

\* a redraw that acquires first and runs the schedule only in the Ok arm
RedrawRequested_MoveOnAcquire(elapsed, res) ==
    /\ variant = "game_app"
    /\ ~exiting
    /\ worldInput' = [present |-> TRUE, pressed |-> input_manager]
    /\ \E moved \in {IF res = "Ok"
                      THEN player_movement_system(entities, time, input_manager)
                      ELSE entities} :
       \E r \in {RedrawAcquire(res, moved, size, config)} :
          /\ entities' = moved
          /\ size' = r.size
          /\ config' = r.config
          /\ exiting' = r.exit
          /\ ops' = <<TickEvent("RedrawRequested", elapsed), Head(r.ops)>>
                    \o (IF res = "Ok" THEN <<Call("run_schedule")>> ELSE <<>>)
                    \o Tail(r.ops)
    /\ UNCHANGED <<variant, spawned, time, input_manager, held, panicked,
                   last_update, ticks>>

\* a redraw that inserts the InputManager only into a World that holds none,
\* so that later ticks run on the set of the first tick
RedrawRequested_InsertOnce(elapsed, res) ==
    /\ variant = "game_app"
    /\ ~exiting
    /\ worldInput' = IF worldInput.present THEN worldInput
                     ELSE [present |-> TRUE, pressed |-> input_manager]
    /\ \E moved \in {player_movement_system(entities, time, worldInput'.pressed)} :
       \E r \in {RedrawAcquire(res, moved, size, config)} :
          /\ entities' = moved
          /\ size' = r.size
          /\ config' = r.config
          /\ exiting' = r.exit
          /\ ops' = <<TickEvent("RedrawRequested", elapsed), Call("run_schedule")>> \o r.ops
    /\ UNCHANGED <<variant, spawned, time, input_manager, held, panicked,
                   last_update, ticks>>

\* WindowEvent::RedrawRequested, elapsed milliseconds after the previous one,
\* with get_current_texture returning res
RedrawRequested(elapsed, res) ==
    /\ variant = "game_app"
    /\ ~exiting
    /\ worldInput' = [present |-> TRUE, pressed |-> input_manager]
    /\ \E moved \in {player_movement_system(entities, time, input_manager)} :
       \E r \in {RedrawAcquire(res, moved, size, config)} :
          /\ entities' = moved
          /\ size' = r.size
          /\ config' = r.config
          /\ exiting' = r.exit
          /\ ops' = <<TickEvent("RedrawRequested", elapsed), Call("run_schedule")>> \o r.ops
    /\ UNCHANGED <<variant, spawned, time, input_manager, held, panicked,
                   last_update, ticks>>

----------------------------------------------------------------------------
(* engine_renderer: Renderer of renderer.rs and of lib.rs, called by a host *)

\* Renderer::resize
RendererResize(new_size) ==
    /\ variant \in {"renderer_rs", "lib_rs"}
    /\ ~panicked
    /\ \E r \in {resize(size, config, new_size)} :
          /\ size' = r.size
          /\ config' = r.config
          /\ ops' = <<ResizeEvent("Renderer::resize", new_size)>> \o r.ops
    /\ UNCHANGED <<variant, entities, spawned, time, worldInput, input_manager, held,
                   exiting, panicked, last_update, ticks>>

\* Renderer::render(world), with get_current_texture returning res
RendererRender(res, world) ==
    /\ variant \in {"renderer_rs", "lib_rs"}
    /\ ~panicked
    /\ entities' = world
    /\ spawned' = world
    /\ ops' = <<Call("Renderer::render")>> \o RendererRenderOps(variant, world, res)
    /\ panicked' = (res \notin {"Ok", "Lost", "OutOfMemory"})
    /\ UNCHANGED <<variant, time, worldInput, input_manager, held, size, config,
                   exiting, last_update, ticks>>

----------------------------------------------------------------------------
(* engine_api: the headless host loop, and the scene authoring of its caller *)

\* world.spawn(bundle), as main() does before the first tick
Spawn(bundle) ==
    /\ variant = "engine_api"
    /\ ~panicked
    /\ ticks = 0
    /\ Len(entities) < MaxEntities
    /\ entities' = Append(entities, bundle)
    /\ spawned' = Append(spawned, bundle)
    /\ ops' = <<Call("spawn")>>
    /\ UNCHANGED <<variant, time, worldInput, input_manager, held, size, config,
                   exiting, panicked, last_update, ticks>>

\* world.insert_resource(Time::default()), as main() does
InsertTime ==
    /\ variant = "engine_api"
    /\ ~panicked
    /\ ~time.present
    /\ time' = TimeDefault
    /\ ops' = <<Call("insert_resource")>>
    /\ UNCHANGED <<variant, entities, spawned, worldInput, input_manager, held, size,
                   config, exiting, panicked, last_update, ticks>>

\* Engine::update(input_manager), called elapsed milliseconds after the last
\* call.  Without a Time resource the system's Res<Time> panics.
EngineUpdate(elapsed, input) ==
    /\ variant = "engine_api"
    /\ ~panicked
    /\ ticks < MaxTicks
    /\ LET now == last_update + elapsed
           delta == now - last_update
       IN /\ last_update' = now
          /\ time' = IF time.present THEN advance_by(time, delta) ELSE time
    /\ worldInput' = [present |-> TRUE, pressed |-> input]
    /\ IF time.present
       THEN /\ entities' = player_movement_system(entities, time', input)
            /\ ops' = <<TickEvent("Engine::update", elapsed), Call("run_schedule")>>
            /\ UNCHANGED panicked
       ELSE /\ panicked' = TRUE
            /\ ops' = <<TickEvent("Engine::update", elapsed), Call("panic")>>
            /\ UNCHANGED entities
    /\ ticks' = ticks + 1
    /\ UNCHANGED <<variant, spawned, input_manager, held, size, config, exiting>>

----------------------------------------------------------------------------
(* The specifications *)

NoInput == [present |-> FALSE, pressed |-> {}]

\* the window application after resumed(), or a Renderer after new()
Init ==
    /\ variant \in {"game_app", "renderer_rs", "lib_rs"}
    /\ entities = IF variant = "game_app" THEN SeedScene ELSE <<>>
    /\ spawned = entities
    /\ time = IF variant = "game_app" THEN TimeDefault ELSE TimeAbsent
    /\ worldInput = NoInput
    /\ input_manager = {}
    /\ held = {}
    /\ size \in ValidSizes
    /\ config = size
    /\ ops = <<>>
    /\ exiting = FALSE
    /\ panicked = FALSE
    /\ last_update = 0
    /\ ticks = 0

Next ==
    \/ \E k \in Keyboard, s \in ElementState : KeyboardInput(k, s)
    \/ CloseRequested
    \/ \E sz \in Dims \X Dims : Resized(sz)
    \/ \E d \in Deltas, res \in SurfaceResults : RedrawRequested(d, res)
    \/ \E sz \in Dims \X Dims : RendererResize(sz)
    \/ \E res \in SurfaceResults, world \in Scenes : RendererRender(res, world)

Spec == Init /\ [][Next]_vars

\* Engine::new()
InitEngine ==
    /\ variant = "engine_api"
    /\ entities = <<>>
    /\ spawned = <<>>
    /\ time = TimeAbsent
    /\ worldInput = NoInput
    /\ input_manager = {}
    /\ held = {}
    /\ size = <<0, 0>>
    /\ config = <<0, 0>>
    /\ ops = <<>>
    /\ exiting = FALSE
    /\ panicked = FALSE
    /\ last_update = 0
    /\ ticks = 0

NextEngine ==
    \/ \E b \in {Bundles[i] : i \in 1..Len(Bundles)} : Spawn(b)
    \/ InsertTime
    \/ \E d \in Deltas, input \in SUBSET InputAction : EngineUpdate(d, input)

SpecEngine == InitEngine /\ [][NextEngine]_vars

\* the window application after resumed(), with a World of any population
InitCapacity ==
    /\ variant = "game_app"
    /\ entities \in CapacityWorlds
    /\ spawned = entities
    /\ time = TimeDefault
    /\ worldInput = NoInput
    /\ input_manager = {}
    /\ held = {}
    /\ size \in ValidSizes
    /\ config = size
    /\ ops = <<>>
    /\ exiting = FALSE
    /\ panicked = FALSE
    /\ last_update = 0
    /\ ticks = 0

NextCapacity ==
    \/ CloseRequested
    \/ \E sz \in Dims \X Dims : Resized(sz)
    \/ \E d \in Deltas, res \in SurfaceResults : RedrawRequested(d, res)

SpecCapacity == InitCapacity /\ [][NextCapacity]_vars

----------------------------------------------------------------------------
(* Vocabulary of the properties *)

\* the last handler made the call c
Made(c) == \E i \in 1..Len(ops) : ops[i] = c

\* the last handler made a call named name
MadeCall(name) == \E i \in 1..Len(ops) : ops[i].op = name

\* how many calls named name the last handler made
CountCalls(name) == Cardinality({i \in 1..Len(ops) : ops[i].op = name})

\* the last handler acquired the surface texture and got res
Acquired(res) == Made(Acquire(res))

\* the last handler uploaded instances, drew, submitted or presented
DrewOrPresented ==
    \/ MadeCall("write_buffer")
    \/ MadeCall("draw_indexed")
    \/ MadeCall("submit")
    \/ MadeCall("present")

\* the last handler was a redraw tick of the window host loop
RedrawTick == ops # <<>> /\ ops[1].op = "RedrawRequested"

\* the acquisition errors other than Lost and OutOfMemory
OtherErrors == SurfaceResults \ {"Ok", "Lost", "OutOfMemory"}

----------------------------------------------------------------------------
(* C1: a redraw tick whose acquisition returns Lost reconfigures the       *)
(* surface, in that tick, with the size recorded before the tick, leaves   *)
(* that size recorded, and makes no upload, draw, submit or present; no    *)
(* coordinator draws or presents on Lost.                                  *)
C1_LostReconfiguresAndSkips ==
    [][(Acquired("Lost"))' =>
          /\ ~DrewOrPresented'
          /\ RedrawTick' =>
                /\ Made(Configure(size[1], size[2]))'
                /\ CountCalls("configure")' = 1
                /\ size' = size
                /\ config' = size]_vars

C1_Witness ==
    /\ RedrawTick
    /\ Acquired("Lost")
    /\ Made(Configure(size[1], size[2]))
    /\ size = <<MaxDim, 1>>

(* C2: a redraw tick whose acquisition returns OutOfMemory requests exit,  *)
(* makes no upload, draw, submit or present, and acquires only once; the   *)
(* Renderer of engine_renderer reports OutOfMemory to its host instead.    *)
C2_OutOfMemoryExits ==
    Acquired("OutOfMemory") =>
        /\ ~DrewOrPresented
        /\ CountCalls("get_current_texture") = 1
        /\ ~MadeCall("configure")
        /\ IF RedrawTick THEN exiting /\ MadeCall("exit")
           ELSE MadeCall("return OutOfMemory")

C2_Witness == RedrawTick /\ Acquired("OutOfMemory") /\ exiting

(* C3: in every frame coordinator, an acquisition error other than Lost    *)
(* and OutOfMemory skips the frame: no panic, no reconfigure, no draw or   *)
(* present, and the next tick can run.                                     *)
C3_OtherErrorSkipsFrame ==
    \A res \in OtherErrors :
        Acquired(res) =>
            /\ ~panicked
            /\ ~MadeCall("panic")
            /\ ~MadeCall("configure")
            /\ ~DrewOrPresented
            /\ ~exiting

(* C4: in every frame coordinator, resize(w, h) with w = 0 or h = 0 leaves *)
(* the recorded size and the surface configuration unchanged and makes no  *)
(* configure call.                                                         *)
C4_ZeroResizeIsNoOp ==
    [][\A sz \in Dims \X Dims :
          ((sz[1] = 0 \/ sz[2] = 0) /\ (Resized(sz) \/ RendererResize(sz))) =>
              /\ size' = size
              /\ config' = config
              /\ ~MadeCall("configure")']_vars

C4_Witness ==
    /\ ops # <<>>
    /\ ops[1].op \in {"Resized", "Renderer::resize"}
    /\ ops[1].w = 0 \/ ops[1].h = 0
    /\ ops[1].w + ops[1].h > 0
    /\ ~MadeCall("configure")
    /\ size = <<MaxDim, MaxDim>>

(* C5: an entity without the Player marker, whatever other components it   *)
(* holds, keeps the Transform it was created with through every run of the *)
(* movement system.                                                       *)
C5_NonPlayerNeverMoves ==
    \A i \in 1..Len(entities) :
        ~entities[i].player => Transform(entities[i]) = Transform(spawned[i])

C5_Witness ==
    /\ ticks = MaxTicks
    /\ ~panicked
    /\ delta_seconds(time) > 0
    /\ worldInput.pressed = {"MoveRight"}
    /\ \E i \in 1..Len(entities) :
          ~entities[i].player /\ entities[i].hasSpeed /\ entities[i].hasTransform
    /\ \E j \in 1..Len(entities) :
          entities[j].player /\ entities[j].position # spawned[j].position

\* the last handler was a tick of a host loop
HostTick == ops # <<>> /\ ops[1].op \in {"RedrawRequested", "Engine::update"}

(* C6: the World of a host loop holds a Time of zero delta until the first *)
(* tick, and every tick leaves in it the duration elapsed since the        *)
(* previous tick.                                                          *)
C6_ClockReplacedEveryTick ==
    variant \in {"game_app", "engine_api"} =>
        /\ time.present
        /\ IF HostTick
           THEN time.delta = ops[1].ms /\ delta_seconds(time) = AsSecsF32(ops[1].ms)
           ELSE ticks = 0 => time.delta = 0

\* the unit step of an action: its axis and sign
AxisOf(a) ==
    CASE a = "MoveForward" -> <<0, 1>>
      [] a = "MoveBack" -> <<0, -1>>
      [] a = "MoveRight" -> <<1, 0>>
      [] a = "MoveLeft" -> <<-1, 0>>

\* this step is a run of the movement system by Engine::update
MovementRan == ticks' = ticks + 1 /\ ~panicked'

(* C7: one run of the movement system with exactly one action pressed      *)
(* moves each entity holding Player, MoveSpeed and Transform by speed *    *)
(* delta_seconds along the axis of the action and by 0 on the other axis,  *)
(* and changes nothing else of the entity.                                 *)
C7_SingleActionDisplacement ==
    [][\A a \in InputAction :
          (MovementRan /\ worldInput'.pressed = {a}) =>
              \A i \in 1..Len(entities) :
                  MovementQuery(entities[i]) =>
                      LET step == FMul(entities[i].speed, delta_seconds(time'))
                      IN entities'[i] =
                            [entities[i] EXCEPT !.position =
                                <<@[1] + AxisOf(a)[1] * step, @[2] + AxisOf(a)[2] * step>>]]_vars

C7_Witness ==
    /\ ticks = 1
    /\ ~panicked
    /\ worldInput.pressed = {"MoveLeft"}
    /\ delta_seconds(time) > 0
    /\ \E i \in 1..Len(entities) :
          /\ MovementQuery(entities[i])
          /\ entities[i].position[1] < spawned[i].position[1]
          /\ entities[i].position[2] = spawned[i].position[2]

(* C8: with MoveForward and MoveBack both pressed a run of the movement    *)
(* system leaves the y position of every Player entity unchanged, with     *)
(* MoveLeft and MoveRight both pressed the x position; with just an        *)
(* opposite pair, or all four, pressed the entity is unchanged.            *)
C8_OppositeActionsCancel ==
    [][MovementRan =>
          \A i \in 1..Len(entities) :
              MovementQuery(entities[i]) =>
                  LET pressed == worldInput'.pressed
                  IN /\ {"MoveForward", "MoveBack"} \subseteq pressed =>
                            entities'[i].position[2] = entities[i].position[2]
                     /\ {"MoveLeft", "MoveRight"} \subseteq pressed =>
                            entities'[i].position[1] = entities[i].position[1]
                     /\ pressed \in {{"MoveForward", "MoveBack"},
                                     {"MoveLeft", "MoveRight"}, InputAction} =>
                            entities'[i] = entities[i]]_vars

C8_Witness ==
    /\ ticks = 1
    /\ ~panicked
    /\ worldInput.pressed = {"MoveForward", "MoveBack", "MoveRight"}
    /\ delta_seconds(time) > 0
    /\ \E i \in 1..Len(entities) :
          /\ MovementQuery(entities[i])
          /\ entities[i].position[1] > spawned[i].position[1]
          /\ entities[i].position[2] = spawned[i].position[2]

(* C9: the instance records a frame uploads are as many as the entities    *)
(* holding both Transform and Renderable.                                  *)
C9_InstanceCount ==
    \A i \in 1..Len(ops) :
        ops[i].op = "write_buffer" =>
            /\ Len(ops[i].data) =
                 Cardinality({j \in 1..Len(entities) :
                                 entities[j].hasTransform /\ entities[j].hasRenderable})
            /\ ops[i].n = Len(ops[i].data)

C9_Witness ==
    /\ MadeCall("write_buffer")
    /\ Len(entities) = MaxEntities
    /\ \E j \in 1..Len(entities) :
          entities[j].hasTransform /\ entities[j].hasRenderable /\ entities[j].player
    /\ \E j \in 1..Len(entities) :
          entities[j].hasTransform /\ ~entities[j].hasRenderable
    /\ \A i \in 1..Len(ops) : ops[i].op = "write_buffer" => ops[i].n = 1

(* C10: in every Renderer the model matrix of an instance is               *)
(* Translation(position) * RotationZ(rotation) * Scale(scale); for         *)
(* rotation 0 its translation column is (position.x, position.y, 0) and    *)
(* its linear part is diag(scale.x, scale.y, 1).                           *)
C10_TranslationRotationScale ==
    \A i \in 1..Len(ops) :
        ops[i].op = "write_buffer" =>
            LET drawn == SelectSeq(entities, RenderQuery)
            IN \A k \in 1..Len(ops[i].data) :
                  LET model == ops[i].data[k].model
                      e == drawn[k]
                  IN /\ model = ModelMatrixTRS(e)
                     /\ e.rotation = 0 =>
                           /\ model[4] = <<e.position[1], e.position[2], 0, Den>>
                           /\ model[1] = <<e.scale[1], 0, 0, 0>>
                           /\ model[2] = <<0, e.scale[2], 0, 0>>
                           /\ model[3] = <<0, 0, Den, 0>>

(* C11: in every frame coordinator a frame that uploads zero instances     *)
(* issues no indexed draw call and is still submitted and presented; a     *)
(* frame that uploads n > 0 instances issues exactly one draw call, over   *)
(* all NumIndices indices and n instances.                                 *)
C11_ZeroInstancesSkipDraw ==
    \A i \in 1..Len(ops) :
        ops[i].op = "write_buffer" =>
            /\ MadeCall("submit")
            /\ MadeCall("present")
            /\ IF ops[i].n = 0
               THEN ~MadeCall("draw_indexed")
               ELSE /\ CountCalls("draw_indexed") = 1
                    /\ Made(DrawIndexed(ops[i].n))

(* C12: on every frame the instance records written to the instance        *)
(* buffer, and the instance count of the draw call, are as many as the     *)
(* renderable entities up to InstanceCapacity and never more.              *)
C12_InstanceCapacity ==
    LET renderable == Cardinality({j \in 1..Len(entities) : RenderQuery(entities[j])})
        batch == IF renderable < InstanceCapacity THEN renderable ELSE InstanceCapacity
    IN \A i \in 1..Len(ops) :
          /\ ops[i].op = "write_buffer" => ops[i].n = batch /\ Len(ops[i].data) = batch
          /\ ops[i].op = "draw_indexed" => ops[i].n = batch

(* C13: after any sequence of key presses and releases handled by the      *)
(* window host loop, an action is in the InputManager exactly when a key   *)
(* bound to it is held.                                                    *)
C13_ActionPressedIffKeyHeld ==
    variant = "game_app" =>
        \A a \in InputAction :
            is_action_pressed(input_manager, a) <=> \E k \in held : KeyAction(k) = a

\* b is pressed after this step exactly when it was pressed before it
SamePressed(b) ==
    is_action_pressed(input_manager', b) <=> is_action_pressed(input_manager, b)

(* C14: a press makes is_action_pressed true of the action, a release      *)
(* makes it false, and either leaves is_action_pressed of every other      *)
(* action as it was; a press of a pressed action and a release of an       *)
(* action that is not pressed leave the whole set unchanged.               *)
C14_PressReleaseIdempotent ==
    [][\A k \in Keyboard :
          LET a == KeyAction(k)
          IN a \in InputAction =>
                /\ KeyboardInput(k, "Pressed") =>
                      /\ is_action_pressed(input_manager', a)
                      /\ \A b \in InputAction \ {a} : SamePressed(b)
                      /\ is_action_pressed(input_manager, a) =>
                            input_manager' = input_manager
                /\ KeyboardInput(k, "Released") =>
                      /\ ~is_action_pressed(input_manager', a)
                      /\ \A b \in InputAction \ {a} : SamePressed(b)
                      /\ ~is_action_pressed(input_manager, a) =>
                            input_manager' = input_manager]_vars

C14_Witness ==
    /\ ops = <<Call("KeyboardInput")>>
    /\ held = {"KeyW", "ArrowUp", "KeyD"}
    /\ input_manager = {"MoveForward", "MoveRight"}

\* every call named a of the last handler comes before every call named b
Before(a, b) ==
    \A i, j \in 1..Len(ops) : (ops[i].op = a /\ ops[j].op = b) => i < j

(* C15: the calls of a frame come in the order acquire, upload, draw,      *)
(* submit, present; upload, draw, submit and present are made only by a    *)
(* tick whose acquisition returned Ok, and such a tick acquires once and   *)
(* uploads, submits and presents exactly once, present after submit.       *)
C15_FrameOrder ==
    /\ Before("get_current_texture", "write_buffer")
    /\ Before("write_buffer", "draw_indexed")
    /\ Before("write_buffer", "submit")
    /\ Before("draw_indexed", "submit")
    /\ Before("submit", "present")
    /\ DrewOrPresented => Acquired("Ok")
    /\ Acquired("Ok") =>
          /\ CountCalls("get_current_texture") = 1
          /\ CountCalls("write_buffer") = 1
          /\ CountCalls("draw_indexed") <= 1
          /\ CountCalls("submit") = 1
          /\ CountCalls("present") = 1

C15_Witness ==
    /\ RedrawTick
    /\ Acquired("Ok")
    /\ MadeCall("draw_indexed")
    /\ ops[Len(ops)].op = "present"
    /\ ops[Len(ops) - 1].op = "submit"

(* C16: a redraw tick leaves in the World a copy of the host's             *)
(* InputManager as it was at the start of the tick and does not change the *)
(* host's InputManager; every other handler of the window host loop, key   *)
(* events among them, leaves the World's copy unchanged.                   *)
C16_InputSnapshotPerTick ==
    [][variant = "game_app" =>
          IF RedrawTick'
          THEN /\ worldInput' = [present |-> TRUE, pressed |-> input_manager]
               /\ input_manager' = input_manager
          ELSE worldInput' = worldInput]_vars

C16_Witness ==
    /\ RedrawTick
    /\ Acquired("Ok")
    /\ worldInput = [present |-> TRUE, pressed |-> {"MoveForward", "MoveRight"}]
    /\ input_manager = worldInput.pressed
    /\ held = {"ArrowUp", "KeyD"}

(* C17: after any sequence of resize events and Lost recoveries the width  *)
(* and height of the surface configuration are the recorded size, both     *)
(* positive, and every configure call is made with that configuration.     *)
C17_ConfigMatchesSize ==
    variant \in {"game_app", "renderer_rs", "lib_rs"} =>
        /\ config = size
        /\ size[1] > 0 /\ size[2] > 0
        /\ \A i \in 1..Len(ops) :
              ops[i].op = "configure" =>
                  /\ ops[i].w > 0 /\ ops[i].h > 0
                  /\ <<ops[i].w, ops[i].h>> = config

C17_Witness ==
    /\ ops = <<ResizeEvent("Resized", <<1, MaxDim>>), Configure(1, MaxDim)>>
    /\ config = <<1, MaxDim>>
    /\ worldInput.present

(* C18: every redraw tick of the window host loop runs the schedule once,  *)
(* before it acquires the surface texture, and whatever the acquisition    *)
(* returns the World holds after the tick the entities the movement system *)
(* produced from the World's Time and InputManager.                        *)
C18_MovementBeforeAcquire ==
    [][RedrawTick' =>
          /\ ops'[2] = Call("run_schedule")
          /\ ops'[3].op = "get_current_texture"
          /\ CountCalls("run_schedule")' = 1
          /\ CountCalls("get_current_texture")' = 1
          /\ entities' = player_movement_system(entities, time', worldInput'.pressed)]_vars

C18_Witness ==
    /\ RedrawTick
    /\ ops[2] = Call("run_schedule")
    /\ Acquired("Timeout")
    /\ ~DrewOrPresented
    /\ worldInput.pressed = {"MoveRight"}
    /\ \E i \in 1..Len(entities) : MovementQuery(entities[i])

====
